---- MODULE Spec2Model ----
(***************************************************************************)
(* Model of hercules/core/skills/click_using_selector.py: the click skill  *)
(* (click, do_click, is_element_present, perform_javascript_click).        *)
(*                                                                         *)
(* The coroutine click() is one process; every action below is the code    *)
(* that runs between two suspension points (awaits).  The mutation        *)
(* observer is the environment: it may deliver a notification whenever     *)
(* the coroutine is suspended.                                             *)
(*                                                                         *)
(* Strings are modelled as sequences of fragments, so that f-string        *)
(* formatting is concatenation and "contains" is fragment membership.      *)
(*                                                                         *)
(* page.query_selector / frame.query_selector are taken as the source      *)
(* documents them (line 92 "on the main page", lines 165-169 "regular DOM" *)
(* as opposed to "inside shadow DOMs"): a query of one frame's document,   *)
(* not of its shadow roots and not of other frames.                        *)
(***************************************************************************)
EXTENDS Integers, Sequences, FiniteSets, TLC

VARIABLES
    pc,                     \* position of the click() coroutine
    selector,               \* argument of click()
    wait_before_execution,  \* argument of click()
    page,                   \* result of get_current_page(): "page" or PyNone
    matches,                \* the page: container -> tag of its node matching the selector, or NoNode
    frames,                 \* page.frames, in enumeration order
    subscribers,            \* callbacks registered with the mutation observer
    dom_changes_detected,   \* nonlocal of click(), written by detect_dom_changes
    element,                \* do_click: container of the resolved ElementHandle
    element_tag_name,       \* do_click local
    element_value,          \* do_click local (option path)
    result,                 \* value returned by do_click
    ret,                    \* value returned by click()
    raised,                 \* exception text that escaped click(), or PyNone
    script_invoked,         \* perform_javascript_click was called in this call
    script_error,           \* text of the exception page.evaluate raised, or PyNone
    clicked,                \* container of the node element.click() was dispatched on
    selected,               \* container of the option selected (select path or script)
    aria_before,            \* ariaExpandedBeforeClick read by the script
    aria_after,             \* ariaExpandedAfterClick read by the script
    step_error,             \* text of the exception caught at do_click's top level
    listening_at_highlight, \* was a listener registered when highlight_element ran
    listening_at_click,     \* was a listener registered when do_click was entered
    settle_delivery,        \* a notification reached the listener during the settle sleep
    late_delivery,          \* a notification was dispatched after unsubscribe in this call
    exists_called,          \* is_element_present has been evaluated since the last click
    exists_result,          \* last value returned by is_element_present
    element_outer_html,     \* do_click local: markup captured by get_element_outer_html
    scrollable,             \* the page: scroll_into_view_if_needed succeeds within its timeout
    visible,                \* the page: the node reaches the visible state within the timeout
    ENABLE_TELEMETRY,       \* telemetry.py module flag, read from the environment at import
    events_recorded,        \* interaction events appended to the bucket by the current call
    log,                    \* the steps the current call has executed, in order
    last_heard,             \* description of the last notification dispatched between
                            \* subscribe and unsubscribe of the current call
    heard_nonempty          \* a non-empty notification was dispatched in that interval

vars == <<pc, selector, wait_before_execution, page, matches, frames, subscribers,
          dom_changes_detected, element, element_tag_name, element_value, result,
          ret, raised, script_invoked, script_error, clicked, selected,
          aria_before, aria_after, step_error, listening_at_highlight,
          listening_at_click, settle_delivery, late_delivery,
          exists_called, exists_result, element_outer_html, scrollable, visible,
          ENABLE_TELEMETRY, events_recorded, log, last_heard, heard_nonempty>>

-----------------------------------------------------------------------------
(* Bounds and input domains *)

(* most nodes of one page that match the locator *)
MaxNodes == 2

PyNone == "PyNone"
NoNode == "none"

Selectors == {"[mmid='42']", "#go"}
Waits == {-1, 0, 1}
Tags == {"button", "option"}
(* Each container holds at most one candidate node; the node carries both  *)
(* the mmid attribute and the id, so every locator of Selectors selects it *)
Containers == {"main", "shadow", "nested", "frameA", "frameX"}
FrameOrders == {<<"main", "frameA", "frameX">>, <<"main", "frameX", "frameA">>}
Changes == {"", "c1", "c2"}
AriaValues == {PyNone, "false", "true"}
OptionValues == {PyNone, "v1"}
ErrorTexts == {"e1"}

Pages == {m \in [Containers -> Tags \cup {NoNode}] :
             Cardinality({c \in Containers : m[c] # NoNode}) <= MaxNodes}

(* pages on which at most one node matches the locator *)
SingleNodePages == {m \in Pages : Cardinality({c \in Containers : m[c] # NoNode}) <= 1}

(* The containment tree of the page, in document order: the main document  *)
(* holds a shadow host, a same-origin iframe and a cross-origin iframe;    *)
(* the host's shadow root holds another shadow host.                       *)
Children(c) ==
    CASE c = "main"   -> << [kind |-> "shadow", root |-> "shadow", access |-> TRUE],
                            [kind |-> "iframe", root |-> "frameA", access |-> TRUE],
                            [kind |-> "iframe", root |-> "frameX", access |-> FALSE] >>
      [] c = "shadow" -> << [kind |-> "shadow", root |-> "nested", access |-> TRUE] >>
      [] OTHER        -> << >>

-----------------------------------------------------------------------------
(* Strings *)

(* str(x) inside an f-string: None is rendered as the text None *)
Str(x) == IF x = PyNone THEN "None" ELSE x

(* a message-valued Python None, and its rendering inside an f-string *)
NoneMsg == << PyNone >>
Fmt(msg) == IF msg = NoneMsg THEN << "None" >> ELSE msg

(* no outcome yet *)
NoResult == [summary_message |-> NoneMsg, detailed_message |-> NoneMsg]

Contains(msg, fragment) == \E i \in 1..Len(msg) : msg[i] = fragment

(* truth value of a str-or-None in "if dom_changes_detected:" *)
Truthy(x) == x # PyNone /\ x # ""

(* get_element_outer_html(element, page, tag): the serialized node *)
OuterHtml(c) == "<" \o matches[c] \o " in " \o c \o ">"

NotFoundError(sel) == << "Element with selector: \"", sel, "\" not found" >>

InvalidFragment == "\" since the selector is invalid. Proceed by retrieving DOM again."

(* mutant: the failure message leaves the selector out *)
InvalidSelectorOutcome_NoSelector(sel, e) ==
    LET msg == << "Unable to click element", InvalidFragment >>
    IN  [summary_message |-> msg, detailed_message |-> msg \o << ". Error: " >> \o e]

(* do_click, except branch: the failure outcome built from exception text e *)
InvalidSelectorOutcome(sel, e) ==
    LET msg == << "Unable to click element with selector: \"", sel, InvalidFragment >>
    IN  [summary_message |-> msg, detailed_message |-> msg \o << ". Error: " >> \o e]

(* do_click, option branch *)
SelectOutcome(value, html) ==
    LET msg == << "Select menu option \"", Str(value), "\" selected" >>
    IN  [summary_message |-> msg,
         detailed_message |-> msg \o << ". The select element's outer HTML is: ", html, "." >>]

(* mutant: the detailed message carries no outer markup *)
ClickOutcome_NoMarkup(msg, html) ==
    [summary_message |-> msg, detailed_message |-> Fmt(msg)]

(* do_click, script branch: msg is what perform_javascript_click returned *)
ClickOutcome(msg, html) ==
    [summary_message |-> msg,
     detailed_message |-> Fmt(msg) \o << " The clicked element's outer HTML is: ", html, "." >>]

MenuNotice == ". Very important: As a consequence, a menu has appeared where you may need to make further selection. Very important: Get all_fields DOM to complete the action."

ExecutedFragment == "Executed JavaScript Click on element with selector: "

(* the in-page script's status strings *)
ScriptNotFoundMessage(sel) ==
    << "perform_javascript_click: Element with selector ", sel, " not found" >>

ScriptSelectMessage(text) == << "Select menu option: ", text, " selected" >>

(* mutant: the notice is decided from the post-click value alone *)
ScriptClickMessage_AfterOnly(sel, before, after) ==
    IF after = "true"
    THEN << ExecutedFragment, sel, MenuNotice >>
    ELSE << ExecutedFragment, sel >>

ScriptClickMessage(sel, before, after) ==
    IF before = "false" /\ after = "true"
    THEN << ExecutedFragment, sel, MenuNotice >>
    ELSE << ExecutedFragment, sel >>

NewElementsFragment == ".\n As a consequence of this action, new elements have appeared in view: "
NotYetExecutedFragment == " is not yet executed and needs further interaction. Get all_fields DOM to complete the interaction."

(* mutant: the captured changes are ignored *)
ClickReturn_AlwaysDetail(sel, res, changes) == res.detailed_message

(* click(): the string returned, from do_click's result and the captured changes *)
ClickReturn(sel, res, changes) ==
    IF Truthy(changes)
    THEN << "Success: " >> \o Fmt(res.summary_message)
         \o << NewElementsFragment, changes, ". This means that the action to click ",
               sel, NotYetExecutedFragment >>
    ELSE res.detailed_message

-----------------------------------------------------------------------------
(* Element resolution *)

(* frame.query_selector(selector): the frame's own document only *)
query_selector(frame) == IF matches[frame] # NoNode THEN frame ELSE PyNone

(* mutant: the last matching frame wins *)
RECURSIVE FirstInFrames_LastWins(_, _)
FirstInFrames_LastWins(fs, i) ==
    IF i > Len(fs) THEN PyNone
    ELSE IF FirstInFrames_LastWins(fs, i + 1) # PyNone THEN FirstInFrames_LastWins(fs, i + 1)
    ELSE IF matches[fs[i]] # NoNode THEN fs[i] ELSE PyNone

RECURSIVE FirstInFrames(_, _)
FirstInFrames(fs, i) ==
    IF i > Len(fs) THEN PyNone
    ELSE IF query_selector(fs[i]) # PyNone THEN query_selector(fs[i])
    ELSE FirstInFrames(fs, i + 1)

(* mutant: the frames are not searched *)
find_element_within_iframes_MainOnly == query_selector("main")

(* do_click.find_element_within_iframes: main page, then page.frames in order *)
find_element_within_iframes ==
    IF query_selector("main") # PyNone THEN query_selector("main")
    ELSE FirstInFrames(frames, 1)

(* the script's findElementInShadowDOMAndIframes(parent, selector): the     *)
(* context itself, then depth-first through shadow roots and the documents *)
(* of iframes; a cross-origin iframe's document is not accessible          *)
RECURSIVE findElementInShadowDOMAndIframes(_)
RECURSIVE SearchElements(_, _)
findElementInShadowDOMAndIframes(parent) ==
    IF matches[parent] # NoNode THEN parent
    ELSE SearchElements(Children(parent), 1)

SearchElements(els, i) ==
    IF i > Len(els) THEN PyNone
    ELSE LET el == els[i]
             found == IF el.access THEN findElementInShadowDOMAndIframes(el.root) ELSE PyNone
         IN  IF found # PyNone THEN found ELSE SearchElements(els, i + 1)

(* is_element_present(page, selector) *)
is_element_present ==
    IF query_selector("main") # PyNone THEN TRUE
    ELSE findElementInShadowDOMAndIframes("main") # PyNone

-----------------------------------------------------------------------------
(* State after import: no call in progress, nothing subscribed *)

InitCommon ==
    /\ pc = "idle"
    /\ selector = PyNone
    /\ wait_before_execution = 0
    /\ page = PyNone
    /\ matches \in Pages
    /\ frames \in FrameOrders
    /\ subscribers = {}
    /\ dom_changes_detected = PyNone
    /\ element = PyNone
    /\ element_tag_name = PyNone
    /\ element_value = PyNone
    /\ result = NoResult
    /\ ret = NoneMsg
    /\ raised = NoneMsg
    /\ script_invoked = FALSE
    /\ script_error = NoneMsg
    /\ clicked = PyNone
    /\ selected = PyNone
    /\ aria_before = PyNone
    /\ aria_after = PyNone
    /\ step_error = NoneMsg
    /\ listening_at_highlight = FALSE
    /\ listening_at_click = FALSE
    /\ settle_delivery = FALSE
    /\ late_delivery = FALSE
    /\ exists_called = FALSE
    /\ exists_result = FALSE
    /\ element_outer_html = PyNone
    /\ scrollable \in BOOLEAN
    /\ visible \in BOOLEAN
    /\ ENABLE_TELEMETRY \in BOOLEAN
    /\ events_recorded = 0
    /\ log = << >>
    /\ last_heard = PyNone
    /\ heard_nonempty = FALSE

(* the default configuration: telemetry enabled, and a node that scrolls  *)
(* into view and is visible within the timeouts                           *)
Init ==
    /\ InitCommon
    /\ scrollable /\ visible
    /\ ENABLE_TELEMETRY

PageVars == <<matches, frames, scrollable, visible>>
EnvVars == <<PageVars, ENABLE_TELEMETRY>>
ArgVars == <<selector, wait_before_execution, page>>
DoClickLocals == <<element, element_tag_name, element_value, element_outer_html>>
ScriptVars == <<script_invoked, script_error, clicked, selected, aria_before, aria_after>>
ObserverVars == <<subscribers, dom_changes_detected, settle_delivery, late_delivery>>
OrderVars == <<listening_at_highlight, listening_at_click>>
ExistsVars == <<exists_called, exists_result>>
WindowVars == <<last_heard, heard_nonempty>>

Finished == pc \in {"idle", "returned", "raised"}

(* mutant: the event is recorded whatever the flag says *)
add_event_IgnoresFlag(event_count) == event_count + 1

(* telemetry.add_event, lines 105-123: the bucket's event_count after the *)
(* call, given the count before it                                         *)
add_event(event_count) == IF ~ENABLE_TELEMETRY THEN event_count ELSE event_count + 1

(* mutant: a missing page is not checked before the first steps *)
click_start_NoPageCheck(sel, wait, pg) ==
    /\ Finished
    /\ selector' = sel
    /\ wait_before_execution' = wait
    /\ page' = pg
    /\ pc' = "take_screenshots_start"
    /\ raised' = NoneMsg
    /\ dom_changes_detected' = PyNone
    /\ element' = PyNone
    /\ element_tag_name' = PyNone
    /\ element_value' = PyNone
    /\ result' = NoResult
    /\ ret' = NoneMsg
    /\ script_invoked' = FALSE
    /\ script_error' = NoneMsg
    /\ clicked' = PyNone
    /\ selected' = PyNone
    /\ aria_before' = PyNone
    /\ aria_after' = PyNone
    /\ step_error' = NoneMsg
    /\ listening_at_highlight' = FALSE
    /\ listening_at_click' = FALSE
    /\ settle_delivery' = FALSE
    /\ late_delivery' = FALSE
    /\ element_outer_html' = PyNone
    /\ exists_called' = FALSE
    /\ exists_result' = FALSE
    /\ events_recorded' = add_event(0)
    /\ log' = << "add_event", "get_current_page" >>
    /\ last_heard' = PyNone
    /\ heard_nonempty' = FALSE
    /\ UNCHANGED <<EnvVars, subscribers>>

(* click(), lines 38-47: entry, get_current_page, the ValueError for no page *)
click_start(sel, wait, pg) ==
    /\ Finished
    /\ selector' = sel
    /\ wait_before_execution' = wait
    /\ page' = pg
    /\ IF pg = PyNone
       THEN /\ pc' = "raised"
            /\ raised' = << "No active page found. OpenURL command opens a new page." >>
       ELSE /\ pc' = "take_screenshots_start"
            /\ raised' = NoneMsg
    /\ dom_changes_detected' = PyNone
    /\ element' = PyNone
    /\ element_tag_name' = PyNone
    /\ element_value' = PyNone
    /\ result' = NoResult
    /\ ret' = NoneMsg
    /\ script_invoked' = FALSE
    /\ script_error' = NoneMsg
    /\ clicked' = PyNone
    /\ selected' = PyNone
    /\ aria_before' = PyNone
    /\ aria_after' = PyNone
    /\ step_error' = NoneMsg
    /\ listening_at_highlight' = FALSE
    /\ listening_at_click' = FALSE
    /\ settle_delivery' = FALSE
    /\ late_delivery' = FALSE
    /\ element_outer_html' = PyNone
    /\ exists_called' = FALSE
    /\ exists_result' = FALSE
    /\ events_recorded' = add_event(0)
    /\ log' = << "add_event", "get_current_page" >>
    /\ last_heard' = PyNone
    /\ heard_nonempty' = FALSE
    /\ UNCHANGED <<EnvVars, subscribers>>

(* click(), line 49 *)
take_screenshots_start ==
    /\ pc = "take_screenshots_start"
    /\ log' = Append(log, "take_screenshots")
    /\ pc' = "highlight_element"
    /\ UNCHANGED <<ArgVars, WindowVars, EnvVars, DoClickLocals, ScriptVars, ObserverVars, OrderVars,
                   result, ret, raised, events_recorded, step_error, ExistsVars>>

(* click(), line 51 *)
highlight_element ==
    /\ pc = "highlight_element"
    /\ log' = Append(log, "highlight_element")
    /\ listening_at_highlight' = (subscribers # {})
    /\ pc' = "subscribe"
    /\ UNCHANGED <<ArgVars, WindowVars, EnvVars, DoClickLocals, ScriptVars, ObserverVars,
                   listening_at_click, result, ret, raised, events_recorded, step_error, ExistsVars>>

(* mutant: the listener is not registered *)
subscribe_Forgets ==
    /\ pc = "subscribe"
    /\ log' = Append(log, "subscribe")
    /\ dom_changes_detected' = PyNone
    /\ listening_at_click' = (subscribers # {})
    /\ pc' = IF wait_before_execution > 0 THEN "pre_delay" ELSE "find_element"
    /\ UNCHANGED <<ArgVars, WindowVars, EnvVars, DoClickLocals, ScriptVars, subscribers, settle_delivery,
                   late_delivery, listening_at_highlight, result, ret, raised, events_recorded, step_error,
                   ExistsVars>>

(* mutant: the pre-delay sleep is taken for a zero delay too *)
subscribe_SleepsOnZero ==
    /\ pc = "subscribe"
    /\ log' = Append(log, "subscribe")
    /\ dom_changes_detected' = PyNone
    /\ subscribers' = subscribers \cup {"detect_dom_changes"}
    /\ listening_at_click' = (subscribers' # {})
    /\ pc' = IF wait_before_execution >= 0 THEN "pre_delay" ELSE "find_element"
    /\ UNCHANGED <<ArgVars, WindowVars, EnvVars, DoClickLocals, ScriptVars, settle_delivery,
                   late_delivery, listening_at_highlight, result, ret, raised, events_recorded,
                   step_error, ExistsVars>>

(* click(), lines 53-60 and do_click, lines 84-88: subscribe, enter do_click, *)
(* up to the pre-delay sleep or the first query                               *)
subscribe ==
    /\ pc = "subscribe"
    /\ log' = Append(log, "subscribe")
    /\ dom_changes_detected' = PyNone
    /\ subscribers' = subscribers \cup {"detect_dom_changes"}
    /\ listening_at_click' = (subscribers' # {})
    /\ pc' = IF wait_before_execution > 0 THEN "pre_delay" ELSE "find_element"
    /\ UNCHANGED <<ArgVars, WindowVars, EnvVars, DoClickLocals, ScriptVars, settle_delivery,
                   late_delivery, listening_at_highlight, result, ret, raised, events_recorded, step_error,
                   ExistsVars>>

(* do_click, line 88: the pre-delay elapses *)
pre_delay ==
    /\ pc = "pre_delay"
    /\ log' = Append(log, "sleep")
    /\ pc' = "find_element"
    /\ UNCHANGED <<ArgVars, WindowVars, EnvVars, DoClickLocals, ScriptVars, ObserverVars, OrderVars,
                   result, ret, raised, events_recorded, step_error, ExistsVars>>

(* do_click, lines 145-149: an exception with text e reaches the except clause *)
Caught(e) ==
    /\ step_error' = e
    /\ result' = InvalidSelectorOutcome(selector, e)
    /\ pc' = "settle"

(* do_click, lines 105-111: resolution *)
find_element ==
    /\ pc = "find_element"
    /\ log' = Append(log, "query_selector")
    /\ \/ \E e \in ErrorTexts :
            /\ Caught(<< e >>)
            /\ UNCHANGED element
       \/ /\ find_element_within_iframes = PyNone
          /\ Caught(NotFoundError(selector))
          /\ UNCHANGED element
       \/ /\ find_element_within_iframes # PyNone
          /\ element' = find_element_within_iframes
          /\ pc' = "scroll_into_view"
          /\ UNCHANGED <<result, step_error>>
    /\ UNCHANGED <<ArgVars, WindowVars, EnvVars, element_tag_name, element_value, element_outer_html,
                   ScriptVars,
                   ObserverVars, OrderVars, ret, raised, events_recorded, ExistsVars>>

ScrollTimeout == << "Timeout 200ms exceeded." >>

(* mutant: a failed scroll reaches do_click's outer except clause *)
scroll_into_view_Raises ==
    /\ pc = "scroll_into_view"
    /\ log' = Append(log, "scroll_into_view_if_needed")
    /\ IF scrollable
       THEN pc' = "wait_for_element_state" /\ UNCHANGED <<result, step_error>>
       ELSE Caught(ScrollTimeout)
    /\ UNCHANGED <<ArgVars, WindowVars, EnvVars, DoClickLocals, ScriptVars, ObserverVars, OrderVars,
                   ret, raised, events_recorded, ExistsVars>>

(* do_click, lines 113-119: scroll with a 200 ms timeout; "except Exception: *)
(* pass" swallows its failure                                                *)
scroll_into_view ==
    /\ pc = "scroll_into_view"
    /\ log' = Append(log, "scroll_into_view_if_needed")
    /\ IF scrollable
       THEN pc' = "wait_for_element_state"
       ELSE \* the step raises inside its own try; the handler is "pass"
            pc' = "wait_for_element_state"
    /\ UNCHANGED <<ArgVars, WindowVars, EnvVars, DoClickLocals, ScriptVars, ObserverVars, OrderVars,
                   result, ret, raised, events_recorded, step_error, ExistsVars>>

(* do_click, lines 121-126: wait for the visible state with a 200 ms timeout; *)
(* "except Exception: pass" swallows its failure                              *)
wait_for_element_state ==
    /\ pc = "wait_for_element_state"
    /\ log' = Append(log, "wait_for_element_state")
    /\ IF visible
       THEN pc' = "tag_name"
       ELSE \* the step raises inside its own try; the handler is "pass"
            pc' = "tag_name"
    /\ UNCHANGED <<ArgVars, WindowVars, EnvVars, DoClickLocals, ScriptVars, ObserverVars, OrderVars,
                   result, ret, raised, events_recorded, step_error, ExistsVars>>

(* do_click, line 128: the tag-name read *)
tag_name ==
    /\ pc = "tag_name"
    /\ log' = Append(log, "tagName")
    /\ \/ \E e \in ErrorTexts :
            /\ Caught(<< e >>)
            /\ UNCHANGED element_tag_name
       \/ /\ element_tag_name' = matches[element]
          /\ pc' = "outer_html"
          /\ UNCHANGED <<result, step_error>>
    /\ UNCHANGED <<ArgVars, WindowVars, EnvVars, element, element_value, element_outer_html, ScriptVars,
                   ObserverVars, OrderVars, ret, raised, events_recorded, ExistsVars>>

(* mutant: the option branch is missing *)
outer_html_AlwaysScript ==
    /\ pc = "outer_html"
    /\ log' = Append(log, "get_element_outer_html")
    /\ \/ \E e \in ErrorTexts : Caught(<< e >>) /\ UNCHANGED element_outer_html
       \/ /\ pc' = "perform_javascript_click"
          /\ element_outer_html' = OuterHtml(element)
          /\ UNCHANGED <<result, step_error>>
    /\ UNCHANGED <<ArgVars, WindowVars, EnvVars, element, element_tag_name, element_value, ScriptVars,
                   ObserverVars, OrderVars, ret, raised, events_recorded, ExistsVars>>

(* do_click, lines 129-131: the outer-markup capture and the branch on the tag *)
outer_html ==
    /\ pc = "outer_html"
    /\ log' = Append(log, "get_element_outer_html")
    /\ \/ \E e \in ErrorTexts : Caught(<< e >>) /\ UNCHANGED element_outer_html
       \/ /\ pc' = IF element_tag_name = "option" THEN "select_option"
                   ELSE "perform_javascript_click"
          /\ element_outer_html' = OuterHtml(element)
          /\ UNCHANGED <<result, step_error>>
    /\ UNCHANGED <<ArgVars, WindowVars, EnvVars, element, element_tag_name, element_value, ScriptVars,
                   ObserverVars, OrderVars, ret, raised, events_recorded, ExistsVars>>

(* do_click, lines 132-141: the select-option path *)
select_option ==
    /\ pc = "select_option"
    /\ log' = Append(log, "select_option")
    /\ \E value \in OptionValues :
         /\ element_value' = value
         /\ \/ \E e \in ErrorTexts :
                 /\ Caught(<< e >>)
                 /\ UNCHANGED selected
            \/ /\ selected' = element
               /\ result' = SelectOutcome(value, element_outer_html)
               /\ pc' = "settle"
               /\ UNCHANGED step_error
    /\ UNCHANGED <<ArgVars, WindowVars, EnvVars, element, element_tag_name, element_outer_html,
                   script_invoked, script_error,
                   clicked, aria_before, aria_after, ObserverVars, OrderVars, ret, raised, events_recorded,
                   ExistsVars>>

(* text of an option node, as the script reads element.text *)
OptionText(c) == "text of option in " \o c

(* perform_javascript_click, lines 329-331: the except clause logs and falls *)
(* off the end of the function, which returns None                           *)
ScriptErrorReturn(e) == NoneMsg

(* do_click, lines 143-144 with perform_javascript_click, lines 235-331 *)
perform_javascript_click ==
    /\ pc = "perform_javascript_click"
    /\ log' = Append(log, "perform_javascript_click")
    /\ script_invoked' = TRUE
    /\ LET found == findElementInShadowDOMAndIframes("main")
       IN  \/ \E e \in ErrorTexts :
                 \* page.evaluate raises, before or after the script dispatched the click
                 /\ script_error' = << e >>
                 /\ clicked' \in {PyNone} \cup
                        (IF found # PyNone /\ matches[found] # "option" THEN {found} ELSE {})
                 /\ result' = ClickOutcome(ScriptErrorReturn(<< e >>), element_outer_html)
                 /\ UNCHANGED <<selected, aria_before, aria_after>>
           \/ /\ found = PyNone
              /\ result' = ClickOutcome(ScriptNotFoundMessage(selector), element_outer_html)
              /\ UNCHANGED <<script_error, clicked, selected, aria_before, aria_after>>
           \/ /\ found # PyNone
              /\ matches[found] = "option"
              /\ selected' = found
              /\ result' = ClickOutcome(ScriptSelectMessage(OptionText(found)), element_outer_html)
              /\ UNCHANGED <<script_error, clicked, aria_before, aria_after>>
           \/ /\ found # PyNone
              /\ matches[found] # "option"
              /\ \E before \in AriaValues, after \in AriaValues :
                    /\ aria_before' = before
                    /\ aria_after' = after
                    /\ result' = ClickOutcome(ScriptClickMessage(selector, before, after),
                                              element_outer_html)
              /\ clicked' = found
              /\ UNCHANGED <<script_error, selected>>
    /\ pc' = "settle"
    /\ UNCHANGED <<ArgVars, WindowVars, EnvVars, DoClickLocals, ObserverVars, OrderVars, ret, raised, events_recorded,
                   step_error, ExistsVars>>

(* mutant: the listener stays registered *)
settle_NoUnsubscribe ==
    /\ pc = "settle"
    /\ log' = Append(log, "unsubscribe")
    /\ pc' = "take_screenshots_end"
    /\ UNCHANGED <<ArgVars, WindowVars, EnvVars, DoClickLocals, ScriptVars, ObserverVars, OrderVars,
                   result, ret, raised, events_recorded, step_error, ExistsVars>>

(* click(), lines 61-62: the settle sleep elapses, then unsubscribe *)
settle ==
    /\ pc = "settle"
    /\ log' = Append(log, "unsubscribe")
    /\ subscribers' = subscribers \ {"detect_dom_changes"}
    /\ pc' = "take_screenshots_end"
    /\ UNCHANGED <<ArgVars, WindowVars, EnvVars, DoClickLocals, ScriptVars, dom_changes_detected,
                   settle_delivery, late_delivery, OrderVars, result, ret, raised, events_recorded,
                   step_error, ExistsVars>>

(* click(), line 63 *)
take_screenshots_end ==
    /\ pc = "take_screenshots_end"
    /\ log' = Append(log, "take_screenshots")
    /\ pc' = "notify_user"
    /\ UNCHANGED <<ArgVars, WindowVars, EnvVars, DoClickLocals, ScriptVars, ObserverVars, OrderVars,
                   result, ret, raised, events_recorded, step_error, ExistsVars>>

(* click(), lines 64-68: notify_user returns, the message is chosen and returned *)
notify_user ==
    /\ pc = "notify_user"
    /\ log' = Append(log, "notify_user")
    /\ ret' = ClickReturn(selector, result, dom_changes_detected)
    /\ pc' = "returned"
    /\ UNCHANGED <<ArgVars, WindowVars, EnvVars, DoClickLocals, ScriptVars, ObserverVars, OrderVars,
                   result, raised, events_recorded, step_error, ExistsVars>>

(* mutant: only the first description is kept *)
detect_dom_changes_KeepsFirst(changes) ==
    /\ dom_changes_detected' = IF dom_changes_detected = PyNone THEN changes
                               ELSE dom_changes_detected
    /\ settle_delivery' = (settle_delivery \/ pc = "settle")

(* click.detect_dom_changes, lines 55-57 *)
detect_dom_changes(changes) ==
    /\ dom_changes_detected' = changes
    /\ settle_delivery' = (settle_delivery \/ pc = "settle")

(* click(), lines 59-62: the coroutine is suspended between subscribe and *)
(* unsubscribe, that is inside do_click or in the settle sleep            *)
ObservationWindow ==
    pc \in {"pre_delay", "find_element", "scroll_into_view", "wait_for_element_state",
            "tag_name", "outer_html", "select_option", "perform_javascript_click", "settle"}

(* The mutation observer dispatches a change description to the registered *)
(* callbacks while the coroutine is suspended                              *)
mutation_notification(changes) ==
    /\ ~Finished
    /\ IF "detect_dom_changes" \in subscribers
       THEN detect_dom_changes(changes)
       ELSE UNCHANGED <<dom_changes_detected, settle_delivery>>
    /\ late_delivery' = (late_delivery \/ pc \in {"take_screenshots_end", "notify_user"})
    /\ last_heard' = IF ObservationWindow THEN changes ELSE last_heard
    /\ heard_nonempty' = (heard_nonempty \/ (ObservationWindow /\ changes # ""))
    /\ UNCHANGED <<pc, ArgVars, EnvVars, DoClickLocals, ScriptVars, subscribers, OrderVars,
                   result, ret, raised, events_recorded, step_error, ExistsVars, log>>

(* mutant: the presence check clicks the node it finds *)
call_is_element_present_Clicks ==
    /\ Finished
    /\ exists_called' = TRUE
    /\ exists_result' = is_element_present
    /\ clicked' = IF is_element_present THEN findElementInShadowDOMAndIframes("main")
                  ELSE clicked
    /\ UNCHANGED <<pc, ArgVars, WindowVars, EnvVars, DoClickLocals, script_invoked, script_error, selected,
                   aria_before, aria_after, ObserverVars, OrderVars,
                   result, ret, raised, events_recorded, step_error, log>>

(* a caller evaluates is_element_present(page, selector) between clicks *)
call_is_element_present ==
    /\ Finished
    /\ exists_called' = TRUE
    /\ exists_result' = is_element_present
    /\ UNCHANGED <<pc, ArgVars, WindowVars, EnvVars, DoClickLocals, ScriptVars, ObserverVars, OrderVars,
                   result, ret, raised, events_recorded, step_error, log>>

Next ==
    \/ \E sel \in Selectors, wait \in Waits, pg \in {"page", PyNone} : click_start(sel, wait, pg)
    \/ take_screenshots_start
    \/ highlight_element
    \/ subscribe
    \/ pre_delay
    \/ find_element
    \/ scroll_into_view
    \/ wait_for_element_state
    \/ tag_name
    \/ outer_html
    \/ select_option
    \/ perform_javascript_click
    \/ settle
    \/ take_screenshots_end
    \/ notify_user
    \/ \E changes \in Changes : mutation_notification(changes)
    \/ call_is_element_present

Spec == Init /\ [][Next]_vars

(* The page removes the matching node of container c after do_click has  *)
(* resolved it and captured its markup and before the script runs        *)
node_removed(c) ==
    /\ pc = "perform_javascript_click"
    /\ matches[c] # NoNode
    /\ matches' = [matches EXCEPT ![c] = NoNode]
    /\ UNCHANGED <<pc, ArgVars, WindowVars, frames, scrollable, visible, ENABLE_TELEMETRY, DoClickLocals,
                   ScriptVars, ObserverVars, OrderVars, result, ret, raised, events_recorded,
                   step_error, ExistsVars, log>>

NextStale ==
    \/ Next
    \/ \E c \in Containers : node_removed(c)

(* a page that may drop its node between resolution and click *)
InitStale == Init /\ matches \in SingleNodePages
SpecStale == InitStale /\ [][NextStale]_vars

(* The task that runs click is cancelled while the coroutine is suspended *)
(* in an await: CancelledError is raised there; it is not an Exception,   *)
(* so do_click's except clause (line 145) does not catch it, and click    *)
(* has no handler at all: the error leaves click at once                  *)
cancel ==
    /\ ~Finished
    /\ pc' = "raised"
    /\ raised' = << "CancelledError" >>
    /\ log' = Append(log, "CancelledError")
    /\ UNCHANGED <<ArgVars, WindowVars, EnvVars, DoClickLocals, ScriptVars, ObserverVars, OrderVars,
                   result, ret, events_recorded, step_error, ExistsVars>>

NextCancel ==
    \/ Next
    \/ cancel

(* calls of click that their caller may cancel *)
InitCancel == Init /\ matches \in SingleNodePages
SpecCancel == InitCancel /\ [][NextCancel]_vars

(* telemetry enabled or disabled by the environment at import *)
InitTelemetry ==
    /\ InitCommon
    /\ scrollable /\ visible
    /\ matches \in SingleNodePages
SpecTelemetry == InitTelemetry /\ [][Next]_vars

(* a node that may fail to scroll into view or to become visible in time *)
InitBestEffort ==
    /\ InitCommon
    /\ ENABLE_TELEMETRY
    /\ matches \in SingleNodePages
SpecBestEffort == InitBestEffort /\ [][Next]_vars

TypeOK ==
    /\ pc \in {"idle", "raised", "returned", "take_screenshots_start", "highlight_element",
               "subscribe", "pre_delay", "find_element", "scroll_into_view",
               "wait_for_element_state", "tag_name", "outer_html", "select_option",
               "perform_javascript_click", "settle", "take_screenshots_end", "notify_user"}
    /\ subscribers \subseteq {"detect_dom_changes"}
    /\ dom_changes_detected \in Changes \cup {PyNone}
    /\ element \in Containers \cup {PyNone}
    /\ exists_result \in BOOLEAN

-----------------------------------------------------------------------------
(* Vocabulary of the properties *)

DoClickReturned == pc \in {"settle", "take_screenshots_end", "notify_user", "returned"}
InDoClick == pc \in {"pre_delay", "find_element", "scroll_into_view", "wait_for_element_state",
                     "tag_name", "outer_html", "select_option", "perform_javascript_click"}
HighlightDone == pc \in {"subscribe"} \/ InDoClick \/ DoClickReturned
Unsubscribed == pc \in {"take_screenshots_end", "notify_user", "returned"}

MatchingContainers == {c \in Containers : matches[c] # NoNode}
NoMatchAnywhere == MatchingContainers = {}
OnlyInShadow == MatchingContainers # {} /\ MatchingContainers \subseteq {"shadow", "nested"}
OnlyIn(c) == MatchingContainers = {c}

(* an exception other than the resolver's own "not found" was raised in a step *)
StepRaised == step_error # NoneMsg /\ step_error # NotFoundError(selector)
ScriptRaised == script_error # NoneMsg
NothingRaised == ~StepRaised /\ ~ScriptRaised

IsInvalidSelectorFailure(res, e) ==
    /\ Contains(res.summary_message, InvalidFragment)
    /\ res.detailed_message = res.summary_message \o << ". Error: " >> \o e

-----------------------------------------------------------------------------
(* C1: whatever step of do_click raises (resolution, tag-name read,       *)
(* outer-markup capture, option selection, script click), do_click returns *)
(* the failure outcome whose summary says the selector is invalid and      *)
(* whose detailed message is the summary with the error text appended.     *)
C1_EveryExceptionBecomesInvalidSelectorFailure ==
    (DoClickReturned /\ (step_error # NoneMsg \/ ScriptRaised)) =>
        IsInvalidSelectorFailure(result,
            IF step_error # NoneMsg THEN step_error ELSE script_error)

C3_ShadowOnlyIsPresentAndClicked ==
    OnlyInShadow =>
        /\ exists_called => exists_result
        /\ (pc = "returned" /\ NothingRaised) =>
              /\ clicked # PyNone \/ selected # PyNone
              /\ ~Contains(ret, InvalidFragment)

(* the outcome of a call whose resolved node is the one in container c *)
OutcomeOfMatchIn(c) ==
    /\ element = c
    /\ IF matches[c] = "option"
       THEN /\ selected = c /\ clicked = PyNone
            /\ result.summary_message = << "Select menu option \"", Str(element_value), "\" selected" >>
            /\ result.detailed_message = result.summary_message
                   \o << ". The select element's outer HTML is: ", OuterHtml(c), "." >>
       ELSE /\ clicked = c /\ selected = PyNone
            /\ result.summary_message \in { << ExecutedFragment, selector >>,
                                           << ExecutedFragment, selector, MenuNotice >> }
            /\ result.detailed_message = result.summary_message
                   \o << " The clicked element's outer HTML is: ", OuterHtml(c), "." >>

(* C4: a locator that matches a node only inside a same-origin child       *)
(* frame resolves, the frame's node is the one acted on, and the outcome   *)
(* has the form it has for a node matched only in the main document.       *)
C4_FrameMatchBehavesAsMainMatch ==
    (DoClickReturned /\ NothingRaised) =>
        /\ OnlyIn("frameA") => OutcomeOfMatchIn("frameA")
        /\ OnlyIn("main") => OutcomeOfMatchIn("main")

C4_Witness ==
    /\ pc = "returned" /\ OnlyIn("frameA") /\ NothingRaised
    /\ clicked = "frameA"
    /\ ret = << ExecutedFragment, selector, " The clicked element's outer HTML is: ",
                OuterHtml("frameA"), "." >>

(* C5 as stated: whenever the resolved node's tag is "option", do_click    *)
(* selects the option on its owning control and returns a message that     *)
(* contains the option's value, and the script click is never invoked.     *)
C5_OptionAlwaysSelected ==
    (DoClickReturned /\ element_tag_name = "option") =>
        /\ ~script_invoked
        /\ selected = element
        /\ Contains(result.summary_message, Str(element_value))
        /\ Contains(result.detailed_message, Str(element_value))

(* C5 amended: whenever the resolved node's tag is "option", the script    *)
(* click is never invoked and nothing is clicked; unless the outer-markup  *)
(* capture or a step of the select path raises, the option is selected and *)
(* the message returned contains its value, and if one raises the outcome  *)
(* is the "selector is invalid" failure and nothing is selected.           *)
C5_OptionNeverScriptClicked ==
    (element_tag_name = "option") =>
        /\ ~script_invoked /\ clicked = PyNone
        /\ pc # "perform_javascript_click"
        /\ DoClickReturned =>
              IF step_error = NoneMsg
              THEN /\ selected = element
                   /\ result.summary_message =
                          << "Select menu option \"", Str(element_value), "\" selected" >>
                   /\ Contains(result.detailed_message, Str(element_value))
              ELSE /\ selected = PyNone
                   /\ IsInvalidSelectorFailure(result, step_error)

C5_Witness ==
    /\ pc = "returned" /\ element_tag_name = "option" /\ element_value = "v1"
    /\ selected = element /\ ~script_invoked
    /\ Contains(ret, "v1")

(* C6: in the script click path the message carries the menu notice        *)
(* exactly when aria-expanded was "false" before the click and "true"      *)
(* after it; for every other pair it is the plain "Executed ... Click on   *)
(* element with selector" message.                                         *)
C6_MenuNoticeIffExpandedByClick ==
    (DoClickReturned /\ clicked # PyNone /\ ~ScriptRaised) =>
        /\ IF aria_before = "false" /\ aria_after = "true"
           THEN /\ Contains(result.summary_message, MenuNotice)
                /\ Contains(result.detailed_message, MenuNotice)
           ELSE /\ result.summary_message = << ExecutedFragment, selector >>
                /\ ~Contains(result.detailed_message, MenuNotice)
        /\ pc = "returned" =>
              (Contains(ret, MenuNotice) <=> (aria_before = "false" /\ aria_after = "true"))

C6_Witness ==
    /\ pc = "returned" /\ clicked # PyNone
    /\ aria_before = "false" /\ aria_after = "true"
    /\ Contains(ret, MenuNotice)

SuccessfulClick == clicked # PyNone /\ NothingRaised

DecidedAtUnsubscribe ==
    pc \in {"take_screenshots_end", "notify_user"} =>
    /\ dom_changes_detected' = dom_changes_detected
    /\ pc' = "returned" =>
          ret' = IF dom_changes_detected \in {PyNone, ""}
                 THEN result.detailed_message
                 ELSE << "Success: " >> \o Fmt(result.summary_message)
                      \o << NewElementsFragment, dom_changes_detected,
                            ". This means that the action to click ",
                            selector, NotYetExecutedFragment >>

(* C9: the listener stays registered until do_click has returned and the   *)
(* settle sleep has elapsed, it is unregistered before the returned string *)
(* is chosen, and a notification after the unsubscribe changes neither the *)
(* captured description nor the string returned.                           *)
C9_LateNotificationHasNoEffect ==
    /\ [](/\ (InDoClick \/ pc = "settle") => "detect_dom_changes" \in subscribers
          /\ Unsubscribed => (subscribers = {} /\ DoClickReturned))
    /\ [][DecidedAtUnsubscribe]_vars

C9_Witness ==
    /\ pc = "returned" /\ late_delivery
    /\ dom_changes_detected = PyNone
    /\ ret = result.detailed_message

(* C10: when the in-page script evaluation raises, do_click returns the    *)
(* failure outcome and its detailed message embeds the raw error text.     *)
C10_ScriptErrorBecomesFailure ==
    (DoClickReturned /\ ScriptRaised) =>
        /\ Contains(result.summary_message, InvalidFragment)
        /\ Contains(result.detailed_message, script_error[1])
        /\ pc = "returned" => Contains(ret, InvalidFragment)

-----------------------------------------------------------------------------
(* C11: whenever do_click yields the failure outcome (locator not found or *)
(* an unexpected error), the string click returns is the failure message   *)
(* that tells the caller to retrieve the DOM again and is not presented as *)
(* a success, whether or not a mutation notification was captured.         *)
C11_FailureNeverPresentedAsSuccess ==
    (pc = "returned" /\ step_error # NoneMsg) =>
        /\ Contains(ret, InvalidFragment)
        /\ ret[1] # "Success: "

(* C12: when get_current_page returns no page, click raises ValueError     *)
(* after the telemetry event and the page lookup only: no screenshot, no   *)
(* highlight, no subscription and no resolution has taken place, nothing   *)
(* is returned and no listener is registered.                              *)
C12_NoPageRaisesBeforeAnyStep ==
    /\ (page = PyNone /\ pc # "idle") =>
          /\ pc = "raised"
          /\ raised = << "No active page found. OpenURL command opens a new page." >>
          /\ log = << "add_event", "get_current_page" >>
          /\ subscribers = {}
          /\ element = PyNone /\ ~script_invoked
          /\ clicked = PyNone /\ selected = PyNone
          /\ ret = NoneMsg
    /\ pc = "raised" => page = PyNone

C12_Witness ==
    /\ pc = "raised" /\ page = PyNone
    /\ raised = << "No active page found. OpenURL command opens a new page." >>
    /\ subscribers = {}
    /\ ~Contains(log, "take_screenshots")

(* a button in the main document, clicked with aria-expanded absent before *)
(* and after, nothing raised and no notification captured                  *)
PlainMainClick ==
    /\ pc = "returned"
    /\ matches["main"] = "button"
    /\ NothingRaised
    /\ aria_before = PyNone /\ aria_after = PyNone
    /\ dom_changes_detected = PyNone

PlainMainClickReturn ==
    /\ clicked = "main"
    /\ element_outer_html = OuterHtml("main")
    /\ ret = << ExecutedFragment, selector, " The clicked element's outer HTML is: ",
                element_outer_html, "." >>

(* the detailed message is the summary, as text, followed by the markup    *)
(* captured before the click                                               *)
MarkupAppended(res) ==
    \E sep \in {" The clicked element's outer HTML is: ",
                ". The select element's outer HTML is: "} :
        res.detailed_message = Fmt(res.summary_message) \o << sep, element_outer_html, "." >>

(* C13 as stated: the plain click of a main-document button returns the    *)
(* "Executed ... Click on element with selector" string followed by the    *)
(* markup captured before the click, and the detailed message of every     *)
(* outcome is its summary with the captured markup appended.               *)
C13_DetailedAlwaysSummaryPlusMarkup ==
    /\ PlainMainClick => PlainMainClickReturn
    /\ DoClickReturned => MarkupAppended(result)

(* C13 amended: the plain click returns that string; the detailed message  *)
(* is the summary (as text) with the captured markup appended for every    *)
(* outcome of the option path and of the script path, and for the failure  *)
(* outcome it is the summary with the error text appended and no markup.   *)
C13_MarkupAppendedUnlessFailure ==
    /\ PlainMainClick => PlainMainClickReturn
    /\ DoClickReturned =>
          IF step_error = NoneMsg
          THEN /\ MarkupAppended(result)
               /\ element_outer_html = OuterHtml(element)
          ELSE /\ IsInvalidSelectorFailure(result, step_error)
               /\ ~Contains(result.detailed_message, element_outer_html)

C13_Witness ==
    /\ PlainMainClick
    /\ wait_before_execution = 0
    /\ ret = << ExecutedFragment, selector, " The clicked element's outer HTML is: ",
                "<button in main>", "." >>

(* number of times step occurs in the log of the current call *)
Occurrences(step) == Cardinality({i \in DOMAIN log : log[i] = step})

(* C14 as stated: every call of click records exactly one telemetry        *)
(* interaction event, whichever path it takes.                             *)
C14_ExactlyOneEventPerCall ==
    pc # "idle" => events_recorded = 1

(* C14 amended: every call of click calls add_event exactly once,          *)
(* whichever path it takes; the call records one event when telemetry is   *)
(* enabled and none when ENABLE_TELEMETRY is off.                          *)
C14_OneEventPerCallWhenEnabled ==
    pc # "idle" =>
        /\ Occurrences("add_event") = 1
        /\ events_recorded = IF ENABLE_TELEMETRY THEN 1 ELSE 0

C14_Witness ==
    /\ pc = "returned" /\ ~ENABLE_TELEMETRY
    /\ events_recorded = 0
    /\ step_error = NotFoundError(selector)

(* a step that evaluates is_element_present: between two calls of click    *)
(* nothing else sets exists_called                                         *)
PresenceCheckIsReadOnly ==
    (Finished /\ exists_called') =>
        /\ UNCHANGED <<matches, frames, scrollable, visible>>
        /\ UNCHANGED <<clicked, selected, subscribers, dom_changes_detected>>
        /\ exists_result' = is_element_present
        /\ exists_called => exists_result' = exists_result

ResolutionDone == Contains(log, "query_selector")

NoFrameMatches == \A i \in 1..Len(frames) : matches[frames[i]] = NoNode

(* C16: the resolver returns the main document's match if there is one,    *)
(* otherwise the match of the first frame, in enumeration order, that has  *)
(* one; it reports not-found exactly when neither the main document nor    *)
(* any enumerated frame matches.                                           *)
C16_ResolverFirstMatchWins ==
    /\ element # PyNone =>
          /\ matches[element] # NoNode
          /\ matches["main"] # NoNode => element = "main"
          /\ \E i \in 1..Len(frames) :
                /\ frames[i] = element
                /\ \A j \in 1..(i - 1) : matches[frames[j]] = NoNode
    /\ (ResolutionDone /\ ~(element = PyNone /\ StepRaised)) =>
          /\ (element = PyNone) <=> (matches["main"] = NoNode /\ NoFrameMatches)
          /\ (element = PyNone) <=> (step_error = NotFoundError(selector))

C16_Witness ==
    /\ pc = "returned"
    /\ frames = << "main", "frameX", "frameA" >>
    /\ matches["frameA"] # NoNode /\ matches["frameX"] # NoNode
    /\ element = "frameX"

(* C17: on an unchanged page the node the script clicks is the node the    *)
(* resolver returned, for every placement of the matching nodes.           *)
C17_ScriptClicksResolvedNode ==
    (DoClickReturned /\ script_invoked /\ NothingRaised) => clicked = element

(* the resolved node is no longer on the page *)
StaleElement == element # PyNone /\ matches[element] = NoNode

(* C18: when the resolved node has gone by the time the script runs, the   *)
(* script returns its "not found" string, nothing is clicked, and the      *)
(* string click returns is the failure that tells the caller to retrieve   *)
(* the DOM again, as for a locator that was not found.                     *)
C18_StaleElementGetsNotFoundRemediation ==
    (pc = "returned" /\ StaleElement /\ script_invoked /\ ~ScriptRaised) =>
        /\ clicked = PyNone /\ selected = PyNone
        /\ result.summary_message = ScriptNotFoundMessage(selector)
        /\ Contains(ret, InvalidFragment)

(* a step that leaves the scroll or the visibility wait goes on to the     *)
(* next step of do_click with no outcome and no error set                  *)
BestEffortStep ==
    /\ (pc = "scroll_into_view" /\ pc' # pc) =>
          /\ pc' = "wait_for_element_state"
          /\ UNCHANGED <<element, result, step_error>>
    /\ (pc = "wait_for_element_state" /\ pc' # pc) =>
          /\ pc' = "tag_name"
          /\ UNCHANGED <<element, result, step_error>>

(* C19: whether or not the scroll and the visibility wait fail, do_click   *)
(* goes on to the tag read and to the option or click step, and its        *)
(* outcome is the one of a call in which both succeeded.                   *)
C19_ScrollAndVisibilityFailuresSwallowed ==
    /\ [][BestEffortStep]_vars
    /\ [](/\ step_error # ScrollTimeout
          /\ (DoClickReturned /\ element # PyNone) => Contains(log, "tagName")
          /\ (DoClickReturned /\ NothingRaised /\ element \in {"main", "frameA"}) =>
                /\ OutcomeOfMatchIn(element)
                /\ Contains(log, "select_option") \/ Contains(log, "perform_javascript_click"))

C19_Witness ==
    /\ pc = "returned" /\ ~scrollable /\ ~visible
    /\ clicked = "main"
    /\ ret = << ExecutedFragment, selector, " The clicked element's outer HTML is: ",
                "<button in main>", "." >>

(* the place of a step among the steps of do_click and of the settle      *)
(* window, in program order; 0 for a step outside them                    *)
Rank(step) ==
    CASE step = "sleep" -> 1
      [] step = "query_selector" -> 2
      [] step = "scroll_into_view_if_needed" -> 3
      [] step = "wait_for_element_state" -> 4
      [] step = "tagName" -> 5
      [] step = "get_element_outer_html" -> 6
      [] step = "select_option" -> 7
      [] step = "perform_javascript_click" -> 8
      [] step = "unsubscribe" -> 9
      [] OTHER -> 0

(* C20: the pre-delay sleep happens, before the first query, exactly when  *)
(* the pre-delay is greater than 0; resolution, scroll, visibility wait,   *)
(* the option or click step and the end of the settle window happen in     *)
(* that order, each at most once in a call. The order is stated of the     *)
(* newest step of the log: the log only grows within a call, so every      *)
(* step was the newest one in an earlier state.                            *)
C20_PreDelayThenStrictOrder ==
    /\ LET n == Len(log)
       IN  (n > 0 /\ Rank(log[n]) > 0) =>
               \A i \in 1..(n - 1) : Rank(log[i]) < Rank(log[n])
    /\ ResolutionDone => (Contains(log, "sleep") <=> wait_before_execution > 0)
    /\ pc = "pre_delay" => (wait_before_execution > 0 /\ ~ResolutionDone)
    /\ (Contains(log, "select_option") \/ Contains(log, "perform_javascript_click")) =>
          /\ Contains(log, "scroll_into_view_if_needed")
          /\ Contains(log, "wait_for_element_state")
    /\ Contains(log, "unsubscribe") => ResolutionDone

C20_Witness ==
    /\ pc = "returned" /\ wait_before_execution = 1
    /\ log = << "add_event", "get_current_page", "take_screenshots", "highlight_element",
                "subscribe", "sleep", "query_selector", "scroll_into_view_if_needed",
                "wait_for_element_state", "tagName", "get_element_outer_html",
                "perform_javascript_click", "unsubscribe", "take_screenshots",
                "notify_user" >>

(* C21: every call of click that registered the listener has unregistered *)
(* it when the call ends, however it ends after the subscription          *)
(* (return, error, or cancellation during the pre-delay, the click        *)
(* sequence or the settle sleep): between calls no listener is registered.*)
C21_ListenerUnregisteredOnEveryExit ==
    Finished => subscribers = {}

(* the string click returns when the description d is the one reported *)
NewElementsReturn(d) ==
    << "Success: " >> \o Fmt(result.summary_message)
    \o << NewElementsFragment, d, ". This means that the action to click ",
          selector, NotYetExecutedFragment >>

====
